---- MODULE Spec2Model ----
(***************************************************************************)
(* One provisioning run of the RunPod/ComfyUI provisioner:                 *)
(* DeployScreen.perform_deployment driving RunPodService.create_pod,       *)
(* wait_for_pod and the execute_setup generator.                           *)
(***************************************************************************)
EXTENDS Integers, Sequences, FiniteSets, TLC

\* ------------------------------------------------------------------ bounds
MaxPolls == 4
MaxPorts == 2
MaxLines == 2
MaxGpus == 2
MaxModels == 2

\* ------------------------------------------------------- program constants
retries == 10

\* --------------------------------------------------------------- variables
VARIABLES
    pc,          \* position of perform_deployment / the generator it drives
    log,         \* lines written to the log view, in order
    calls,       \* external calls issued so far (provider, time, paramiko)
    pod,         \* wait_for_pod's local `pod`: the last get_pod response
    i,           \* execute_setup's loop index of the connect loop
    session,     \* state of the paramiko client: "none", "open", "closed"
    exit_status, \* execute_setup's local exit_status: <<>> unbound, else <<n>>
    yields,      \* lines yielded so far by the execute_setup generator
    gen,         \* generator state: "none", "active", "returned", "raised"
    caught,      \* the exception bound by `except Exception as e`, "" if none
    screen,      \* the screen on top of the application's screen stack
    config,      \* ProvisionerApp.config_data
    notice,      \* the latest notification shown by a screen, "" if none
    fpc,         \* position of the ProvisionScreen.fetch_gpus worker
    listing,     \* the list_gpus call of fetch_gpus: response and result
    options,     \* the options of the GPU select widget
    runpod_api_key, \* the module attribute runpod.api_key
    model,       \* a ModelSpec whose install_path is read
    path,        \* the value read from model.install_path, <<>> before
    script,      \* the lines returned by generate_setup_script, <<>> before
    svc,         \* the RunPodService objects of concurrent runs
    authlog      \* provider calls of concurrent runs with the key they used

runVars == <<pc, log, calls, pod, i, session, exit_status, yields, gen, caught>>

wizVars == <<screen, config, notice, fpc, listing, options>>

pureVars == <<model, path, script>>

keyVars == <<svc, authlog>>

vars == <<runVars, wizVars, runpod_api_key, pureVars, keyVars>>

\* ----------------------------------------------------------------- helpers
Count(s, x) == Cardinality({ k \in 1..Len(s) : s[k] = x })

CallNames ==
    { "runpod.create_pod", "runpod.get_pod", "time.sleep(2)", "time.sleep(5)",
      "client.connect", "exec_command(write)", "recv_exit_status",
      "exec_command(run)", "readline", "client.close", "runpod.get_gpus" }

EndsWith(s, x) == s # <<>> /\ s[Len(s)] = x

Called(op) == Count(calls, op) > 0

\* --------------------------------------------------------- log line values
Line(prefix, text) == [prefix |-> prefix, text |-> text]

Local(text) == Line("", text)

\* variant: the remote prefix is forgotten
Remote_NoPrefix(text) == Line("", text)

Remote(text) == Line("[REMOTE] ", text)

ErrorLine(e) == Line("ERROR: ", e)

NoSSHLine == "Error: Could not find SSH port."

WaitingLine == "Waiting for SSH..."

ConnectFailLine == "Failed to connect via SSH: SSHException"

WriteFailLine == "Failed to write setup script."

CompleteLine == "Provisioning Complete!"

\* -------------------------------------------------------------- exceptions
NoExc == ""

CreateError == "Failed to create pod: ProviderError"

ExitedError == "Pod exited unexpectedly"

AttributeError == "'NoneType' object has no attribute 'get'"

ProviderError == "ProviderError"

SSHException == "SSHException"

\* ------------------------------------------------- provider poll responses
PortMap(private, public, ip) ==
    [privatePort |-> private, publicPort |-> public, ip |-> ip]

PortMaps ==
    { PortMap(22, 10022, "1.2.3.4"),
      PortMap(22, 10022, ""),
      PortMap(8188, 18188, "1.2.3.4"),
      PortMap(8188, 28188, "5.6.7.8") }

PortLists == UNION { [1..n -> PortMaps] : n \in 0..MaxPorts }

\* pod['runtime']: key absent, key present with None, or a dict with ports
RtAbsent == [kind |-> "absent", ports |-> <<>>]

RtNone == [kind |-> "none", ports |-> <<>>]

RtDict(ports) == [kind |-> "dict", ports |-> ports]

Runtimes == {RtAbsent, RtNone} \cup { RtDict(p) : p \in PortLists }

Statuses == {"CREATED", "RUNNING", "EXITED"}

Pods == [desiredStatus : Statuses, runtime : Runtimes]

Unbound == [desiredStatus |-> "UNBOUND", runtime |-> RtAbsent]

\* ---------------------------------------------------- ProvisioningConfig
\* Python's None, for Optional[str] fields and runpod.api_key
None == "<None>"

\* truthiness of an Optional[str]
Truthy(v) == v # None /\ v # ""

\* ProvisionerApp.config_data = ProvisioningConfig(api_key="")
InitialConfig ==
    [ api_key |-> "",
      hf_token |-> None,
      gpu_type_id |-> "NVIDIA GeForce RTX 3090",
      volume_size_gb |-> 40,
      container_disk_size_gb |-> 40,
      models |-> <<>> ]

\* the configuration a completed wizard hands to the deploy screen
WizardConfig ==
    [ InitialConfig EXCEPT !.api_key = "rpa_A", !.gpu_type_id = "gpuA" ]

\* --------------------------------------------------------------- ModelSpec
ModelTypes == {"checkpoint", "lora", "vae", "embedding", "controlnet"}

\* URLs as token sequences, cut so that the text of a URL starts with "http"
\* exactly when its first token is "http", and contains "huggingface.co"
\* exactly when one of its tokens is "huggingface.co"
Urls ==
    { <<"http", "s", "://", "huggingface.co", "/", "x", "/", "a">>,
      <<"http", "://", "example.com", "/", "a">>,
      <<"http", "s", "://", "example.com", "/", "huggingface.co", "/", "a">>,
      <<"ftp", "://", "example.com", "/", "a">>,
      <<"http", "x", "://", "example.com", "/", "a">> }

Names == {"a.safetensors", "b.pt"}

Subfolders == {None, "", "custom"}

ModelSpecs == [name : Names, url : Urls, type : ModelTypes, subfolder : Subfolders]

\* the text of a URL
RECURSIVE UrlText(_)
UrlText(url) == IF url = <<>> THEN "" ELSE Head(url) \o UrlText(Tail(url))

\* the mapping of install_path
TypeDir(type) ==
    CASE type = "checkpoint" -> "checkpoints"
      [] type = "lora" -> "loras"
      [] type = "vae" -> "vae"
      [] type = "embedding" -> "embeddings"
      [] type = "controlnet" -> "controlnet"
      [] OTHER -> "checkpoints"

\* ModelSpec.install_path: `if self.subfolder: return self.subfolder`
InstallPath(m) ==
    IF Truthy(m.subfolder) THEN m.subfolder ELSE TypeDir(m.type)

\* --------------------------------------------------- generate_setup_script
ComfyRepo == "https://github.com/comfyanonymous/ComfyUI"

ManagerRepo == "https://github.com/ltdrdata/ComfyUI-Manager.git"

\* the fixed lines before the downloads
ScriptHead ==
    << "#!/bin/bash",
       "set -e",
       "echo 'Starting ComfyUI Provisioning...'",
       "cd /workspace",
       "",
       "# Install ComfyUI",
       "if [ ! -d 'ComfyUI' ]; then",
       "  git clone " \o ComfyRepo,
       "fi",
       "cd ComfyUI",
       "pip install -r requirements.txt",
       "",
       "# Install Manager",
       "cd custom_nodes",
       "if [ ! -d 'ComfyUI-Manager' ]; then",
       "  git clone " \o ManagerRepo,
       "fi",
       "cd ..",
       "",
       "# Download Models" >>

ScriptTail == << "echo 'Provisioning Complete!'" >>

\* model.url.startswith("http")
UrlAccepted(url) == url # <<>> /\ Head(url) = "http"

\* "huggingface.co" in model.url
MentionsHuggingFace(url) == \E k \in 1..Len(url) : url[k] = "huggingface.co"

\* wget_args
WgetArgs(m, hf_token) ==
    IF MentionsHuggingFace(m.url) /\ Truthy(hf_token)
    THEN "--header='Authorization: Bearer " \o hf_token \o "'"
    ELSE ""

\* f"wget {wget_args} -O '{path}/{model.name}' '{model.url}'"
WgetLine(m, wget_args) ==
    "wget " \o wget_args \o " -O 'models/" \o InstallPath(m) \o "/" \o m.name
        \o "' '" \o UrlText(m.url) \o "'"

EchoLine(m) == "echo 'Downloading " \o m.name \o "...'"

\* the body of `for model in config.models`
RECURSIVE ModelLines(_, _)
ModelLines(models, hf_token) ==
    IF models = <<>> THEN <<>>
    ELSE (IF UrlAccepted(Head(models).url)
          THEN << EchoLine(Head(models)),
                  WgetLine(Head(models), WgetArgs(Head(models), hf_token)) >>
          ELSE <<>>)
         \o ModelLines(Tail(models), hf_token)

\* the lines joined by "\n" into the returned script
GenerateSetupScript(cfg) ==
    ScriptHead \o ModelLines(cfg.models, cfg.hf_token) \o ScriptTail

\* --------------------------------------------------------------- list_gpus
\* an offering of the provider; communityPrice may be missing
Gpu(id, priced, price) == [id |-> id, priced |-> priced, communityPrice |-> price]

GpuTypes == { Gpu("gpuA", TRUE, 2), Gpu("gpuB", FALSE, 0) }

GpuLists == UNION { [1..n -> GpuTypes] : n \in 0..MaxGpus }

\* runpod.get_gpus() either raises or returns a list of offerings
GpuResponses ==
    { [ok |-> FALSE, gpus |-> <<>>] } \cup { [ok |-> TRUE, gpus |-> l] : l \in GpuLists }

\* variant: no try/except around runpod.get_gpus()
ListGpus_NoTry(resp) ==
    [ raised |-> ~resp.ok, value |-> resp.gpus, logged |-> FALSE ]

\* list_gpus: the provider's list, or [] and a logged error when it raises
ListGpus(resp) ==
    IF resp.ok
    THEN [ raised |-> FALSE, value |-> resp.gpus, logged |-> FALSE ]
    ELSE [ raised |-> FALSE, value |-> <<>>, logged |-> TRUE ]

NoListing ==
    [ resp |-> [ok |-> TRUE, gpus |-> <<>>], raised |-> FALSE,
      value |-> <<>>, logged |-> FALSE ]

\* x.get('communityPrice', 999)
PriceKey(g) == IF g.priced THEN g.communityPrice ELSE 999

\* gpus.sort(key=...): stable, ascending
RECURSIVE InsertByPrice(_, _)
InsertByPrice(g, sorted) ==
    IF sorted = <<>> THEN <<g>>
    ELSE IF PriceKey(g) < PriceKey(Head(sorted)) THEN <<g>> \o sorted
    ELSE <<Head(sorted)>> \o InsertByPrice(g, Tail(sorted))

RECURSIVE SortByPrice(_)
SortByPrice(l) ==
    IF l = <<>> THEN <<>>
    ELSE InsertByPrice(l[Len(l)], SortByPrice(SubSeq(l, 1, Len(l) - 1)))

\* ------------------------------------------------------------ wait_for_pod
\* pod.get('runtime', {}).get('ports'): the default applies only when the key
\* is absent; a present None has no .get
PortsLookup(p) ==
    IF p.runtime.kind = "none" THEN "AttributeError"
    ELSE IF p.runtime.ports # <<>> THEN "truthy" ELSE "falsy"

\* variant: the EXITED test is missing, an exited pod is polled again
WaitOutcome_NoExitedTest(p) ==
    IF p.desiredStatus = "RUNNING" /\ PortsLookup(p) = "AttributeError"
        THEN "raise_attr"
    ELSE IF p.desiredStatus = "RUNNING" /\ PortsLookup(p) = "truthy"
        THEN "return"
    ELSE "sleep"

\* variant: readiness is decided by the port mappings alone
WaitOutcome_PortsOnly(p) ==
    IF PortsLookup(p) = "AttributeError"
        THEN "raise_attr"
    ELSE IF PortsLookup(p) = "truthy"
        THEN "return"
    ELSE IF p.desiredStatus = "EXITED"
        THEN "raise_exited"
    ELSE "sleep"

\* variant: the `return pod` of the readiness test is missing
WaitOutcome_NoReturn(p) ==
    IF p.desiredStatus = "RUNNING" /\ PortsLookup(p) = "AttributeError"
        THEN "raise_attr"
    ELSE IF p.desiredStatus = "EXITED"
        THEN "raise_exited"
    ELSE "sleep"

\* one iteration of the loop body after get_pod has returned p
WaitOutcome(p) ==
    IF p.desiredStatus = "RUNNING" /\ PortsLookup(p) = "AttributeError"
        THEN "raise_attr"
    ELSE IF p.desiredStatus = "RUNNING" /\ PortsLookup(p) = "truthy"
        THEN "return"
    ELSE IF p.desiredStatus = "EXITED"
        THEN "raise_exited"
    ELSE "sleep"

\* ----------------------------------------------------------- execute_setup
RECURSIVE FirstHTTP_WrongPort(_, _)

\* variant: the privatePort test is missing, the first mapping is taken
FirstSSH_AnyPort(ports, k) ==
    IF k > Len(ports) THEN 0 ELSE k

\* index of the first mapping whose privatePort is 22 (0 when there is none)
RECURSIVE FirstSSH(_, _)
FirstSSH(ports, k) ==
    IF k > Len(ports) THEN 0
    ELSE IF ports[k].privatePort = 22 THEN k
    ELSE FirstSSH(ports, k + 1)

\* pod.get('runtime') and pod['runtime'].get('ports')
HasPorts(p) == p.runtime.kind = "dict" /\ p.runtime.ports # <<>>

\* negation of `not ssh_port or not public_ip`
SSHFound(p) ==
    /\ HasPorts(p)
    /\ FirstSSH(p.runtime.ports, 1) # 0
    /\ p.runtime.ports[FirstSSH(p.runtime.ports, 1)].publicPort # 0
    /\ p.runtime.ports[FirstSSH(p.runtime.ports, 1)].ip # ""

\* variant: off by one, no iteration is the last
IsLastAttempt_OffByOne(k) == k = retries

IsLastAttempt(k) == k = retries - 1

\* variant: only a negative exit status counts as a failed write
WriteFailed_NegativeOnly(status) == status < 0

WriteFailed(status) == status # 0

ExitStatuses == {0, 1, -1}

\* ------------------------------------------------------ perform_deployment
\* variant: the application port is looked up under the wrong number
FirstHTTP_WrongPort(ports, k) ==
    IF k > Len(ports) THEN 0
    ELSE IF ports[k].privatePort = 8080 THEN k
    ELSE FirstHTTP_WrongPort(ports, k + 1)

\* next((p for p in ports if p['privatePort'] == 8188), None)
RECURSIVE FirstHTTP(_, _)
FirstHTTP(ports, k) ==
    IF k > Len(ports) THEN 0
    ELSE IF ports[k].privatePort = 8188 THEN k
    ELSE FirstHTTP(ports, k + 1)

NoUrlLine == "Could not determine public URL. Check RunPod dashboard."

\* f"http://{http_port['ip']}:{http_port['publicPort']}", or the fallback line
UrlLine(p) ==
    IF FirstHTTP(p.runtime.ports, 1) # 0
        THEN "Access ComfyUI at: http://"
                \o p.runtime.ports[FirstHTTP(p.runtime.ports, 1)].ip
                \o ":"
                \o ToString(p.runtime.ports[FirstHTTP(p.runtime.ports, 1)].publicPort)
        ELSE NoUrlLine

\* variant: `except RuntimeError`, any other exception leaves the worker
Raise_RuntimeErrorOnly(e, pre) ==
    /\ caught' = e
    /\ IF e \in {CreateError, ExitedError}
       THEN /\ log' = Append(log \o pre, ErrorLine(e))
            /\ pc' = "done"
       ELSE /\ log' = log \o pre
            /\ pc' = "crashed"

\* except Exception as e: log(f"ERROR: {e}"), after the lines `pre` already
\* logged by the failing step
Raise(e, pre) ==
    /\ caught' = e
    /\ log' = Append(log \o pre, ErrorLine(e))
    /\ pc' = "done"

\* a line yielded by the generator and logged by the consuming for loop
Yield(text) ==
    /\ yields' = Append(yields, text)
    /\ log' = Append(log, Remote(text))

\* ------------------------------------------------------------------- state
\* nothing of the run has happened yet
RunIdle ==
    /\ pc = "start"
    /\ log = <<>>
    /\ calls = <<>>
    /\ pod = Unbound
    /\ i = 0
    /\ session = "none"
    /\ exit_status = <<>>
    /\ yields = <<>>
    /\ gen = "none"
    /\ caught = NoExc

\* no ModelSpec is being read and no script has been generated
PureIdle ==
    /\ model = <<>>
    /\ path = <<>>
    /\ script = <<>>

\* no concurrent services exist
KeysIdle ==
    /\ svc = <<>>
    /\ authlog = <<>>

\* the deploy screen has just been mounted by a completed wizard
Init ==
    /\ RunIdle
    /\ screen = "deploy_screen"
    /\ config = WizardConfig
    /\ notice = ""
    /\ fpc = "done"
    /\ listing = NoListing
    /\ options = <<"gpuA">>
    /\ runpod_api_key = "rpa_A"
    /\ PureIdle
    /\ KeysIdle

\* log("Initializing RunPod Service..."); service = RunPodService(api_key)
Start ==
    /\ pc = "start"
    /\ screen = "deploy_screen"
    /\ log' = Append(log, Local("Initializing RunPod Service..."))
    /\ runpod_api_key' = config.api_key
    /\ pc' = "create"
    /\ UNCHANGED <<calls, pod, i, session, exit_status, yields, gen, caught>>
    /\ UNCHANGED <<wizVars, pureVars, keyVars>>

\* service.create_pod(config): the provider accepts or rejects the request
CreatePod ==
    /\ pc = "create"
    /\ calls' = Append(calls, "runpod.create_pod")
    /\ \E ok \in BOOLEAN :
        IF ok
        THEN /\ log' = log \o << Local("Creating Pod..."),
                                 Local("Pod created"),
                                 Local("Waiting for pod to start...") >>
             /\ pc' = "poll"
             /\ UNCHANGED caught
        ELSE Raise(CreateError, << Local("Creating Pod...") >>)
    /\ UNCHANGED <<pod, i, session, exit_status, yields, gen>>
    /\ UNCHANGED <<wizVars, runpod_api_key, pureVars, keyVars>>

\* one iteration of wait_for_pod's loop: get_pod, the two tests, the sleep
Poll ==
    /\ pc = "poll"
    /\ Count(calls, "runpod.get_pod") < MaxPolls
    /\ \/ \E p \in Pods :
            /\ pod' = p
            /\ CASE WaitOutcome(p) = "return" ->
                      /\ calls' = Append(calls, "runpod.get_pod")
                      /\ log' = log \o << Local("Pod is RUNNING!"),
                                          Local("Connecting via SSH...") >>
                      /\ pc' = "resolve"
                      /\ gen' = "active"
                      /\ UNCHANGED caught
                 [] WaitOutcome(p) = "raise_exited" ->
                      /\ calls' = Append(calls, "runpod.get_pod")
                      /\ Raise(ExitedError, <<>>)
                      /\ UNCHANGED gen
                 [] WaitOutcome(p) = "raise_attr" ->
                      /\ calls' = Append(calls, "runpod.get_pod")
                      /\ Raise(AttributeError, <<>>)
                      /\ UNCHANGED gen
                 [] OTHER ->
                      /\ calls' = calls \o <<"runpod.get_pod", "time.sleep(2)">>
                      /\ UNCHANGED <<pc, log, gen, caught>>
       \/ /\ calls' = Append(calls, "runpod.get_pod")
          /\ Raise(ProviderError, <<>>)
          /\ UNCHANGED <<pod, gen>>
    /\ UNCHANGED <<i, session, exit_status, yields>>
    /\ UNCHANGED <<wizVars, runpod_api_key, pureVars, keyVars>>

\* execute_setup up to the connect loop: find the SSH mapping, settle delay
Resolve ==
    /\ pc = "resolve"
    /\ IF SSHFound(pod)
       THEN /\ calls' = Append(calls, "time.sleep(5)")
            /\ pc' = "connect"
            /\ UNCHANGED <<log, yields, gen>>
       ELSE /\ Yield(NoSSHLine)
            /\ gen' = "returned"
            /\ pc' = "complete"
            /\ UNCHANGED calls
    /\ UNCHANGED <<pod, i, session, exit_status, caught>>
    /\ UNCHANGED <<wizVars, runpod_api_key, pureVars, keyVars>>

\* variant: the `return` after the failure line is missing
FinalFailure_NoReturn ==
    /\ Yield(ConnectFailLine)
    /\ pc' = "write"
    /\ UNCHANGED gen

\* if i == retries - 1: yield the failure line and return
FinalFailure ==
    /\ Yield(ConnectFailLine)
    /\ gen' = "returned"
    /\ pc' = "complete"

\* one iteration of `for i in range(retries)`: connect, then break or except
Connect ==
    /\ pc = "connect"
    /\ i < retries
    /\ \E ok \in BOOLEAN :
        IF ok
        THEN /\ calls' = Append(calls, "client.connect")
             /\ session' = "open"
             /\ pc' = "write"
             /\ UNCHANGED <<i, log, yields, gen>>
        ELSE IF IsLastAttempt(i)
        THEN /\ calls' = Append(calls, "client.connect")
             /\ FinalFailure
             /\ UNCHANGED <<i, session>>
        ELSE /\ calls' = calls \o <<"client.connect", "time.sleep(2)">>
             /\ Yield(WaitingLine)
             /\ i' = i + 1
             /\ pc' = IF i + 1 < retries THEN "connect" ELSE "write"
             /\ UNCHANGED <<session, gen>>
    /\ UNCHANGED <<pod, exit_status, caught>>
    /\ UNCHANGED <<wizVars, runpod_api_key, pureVars, keyVars>>

\* write the script with a heredoc and read the command's exit status
WriteScript ==
    /\ pc = "write"
    /\ \/ /\ session = "open"
          /\ \E status \in ExitStatuses :
                /\ calls' = calls \o <<"exec_command(write)", "recv_exit_status">>
                /\ exit_status' = <<status>>
                /\ IF WriteFailed(status)
                   THEN /\ Yield(WriteFailLine)
                        /\ gen' = "returned"
                        /\ pc' = "complete"
                   ELSE /\ pc' = "run"
                        /\ UNCHANGED <<log, yields, gen>>
                /\ UNCHANGED caught
       \/ /\ calls' = Append(calls, "exec_command(write)")
          /\ Raise(SSHException, <<>>)
          /\ gen' = "raised"
          /\ UNCHANGED <<exit_status, yields>>
    /\ script' = GenerateSetupScript(config)
    /\ UNCHANGED <<pod, i, session>>
    /\ UNCHANGED <<wizVars, runpod_api_key, model, path, keyVars>>

\* chmod +x and run the script
RunScript ==
    /\ pc = "run"
    /\ calls' = Append(calls, "exec_command(run)")
    /\ \/ /\ pc' = "stream"
          /\ UNCHANGED <<log, gen, caught>>
       \/ /\ Raise(SSHException, <<>>)
          /\ gen' = "raised"
    /\ UNCHANGED <<pod, i, session, exit_status, yields>>
    /\ UNCHANGED <<wizVars, runpod_api_key, pureVars, keyVars>>

\* what stdout.readline returns before EOF, and line.strip() of each
RawLines == {"Starting ComfyUI Provisioning...\n", "Provisioning Complete!\n", "\n"}

Strip(raw) ==
    CASE raw = "Starting ComfyUI Provisioning...\n" -> "Starting ComfyUI Provisioning..."
      [] raw = "Provisioning Complete!\n" -> "Provisioning Complete!"
      [] raw = "\n" -> ""

\* one step of `for line in iter(stdout.readline, "")`, then client.close()
ReadLine ==
    /\ pc = "stream"
    /\ \/ /\ Count(calls, "readline") < MaxLines
          /\ \E raw \in RawLines :
                /\ calls' = Append(calls, "readline")
                /\ Yield(Strip(raw))
                /\ UNCHANGED <<pc, session, gen, caught>>
       \/ /\ calls' = calls \o <<"readline", "client.close">>
          /\ session' = "closed"
          /\ gen' = "returned"
          /\ pc' = "complete"
          /\ UNCHANGED <<log, yields, caught>>
       \/ /\ calls' = Append(calls, "readline")
          /\ Raise(SSHException, <<>>)
          /\ gen' = "raised"
          /\ UNCHANGED <<session, yields>>
    /\ UNCHANGED <<pod, i, exit_status>>
    /\ UNCHANGED <<wizVars, runpod_api_key, pureVars, keyVars>>

\* the lines after the for loop: separator, completion marker, endpoint
Complete ==
    /\ pc = "complete"
    /\ log' = log \o << Local("------------------------------------------------"),
                        Local(CompleteLine),
                        Local(UrlLine(pod)) >>
    /\ pc' = "done"
    /\ UNCHANGED <<calls, pod, i, session, exit_status, yields, gen, caught>>
    /\ UNCHANGED <<wizVars, runpod_api_key, pureVars, keyVars>>

Next ==
    \/ Start
    \/ CreatePod
    \/ Poll
    \/ Resolve
    \/ Connect
    \/ WriteScript
    \/ RunScript
    \/ ReadLine
    \/ Complete

Spec == Init /\ [][Next]_vars

\* the worker thread is sequential and blocking: whenever it has a next
\* step it takes it
SpecLive == Init /\ [][Next]_vars /\ WF_vars(Next)

\* ------------------------------------------------------- pure functions
\* a ModelSpec of any type and subfolder whose install_path is about to be read
InitInstall ==
    /\ RunIdle
    /\ screen = "deploy_screen"
    /\ config = WizardConfig
    /\ notice = ""
    /\ fpc = "done"
    /\ listing = NoListing
    /\ options = <<"gpuA">>
    /\ runpod_api_key = "rpa_A"
    /\ \E m \in ModelSpecs : model = <<m>>
    /\ path = <<>>
    /\ script = <<>>
    /\ KeysIdle

\* path = model.install_path
ReadInstallPath ==
    /\ model # <<>>
    /\ path = <<>>
    /\ path' = <<InstallPath(model[1])>>
    /\ UNCHANGED <<runVars, wizVars, runpod_api_key, model, script, keyVars>>

NextInstall == ReadInstallPath

SpecInstall == InitInstall /\ [][NextInstall]_vars

\* the models and tokens given to generate_setup_script
ScriptModels ==
    [name : Names, url : Urls, type : {"checkpoint", "lora"}, subfolder : {None}]

ModelLists == UNION { [1..n -> ScriptModels] : n \in 0..MaxModels }

HfTokens == {None, "", "hf_tok"}

\* a configuration whose script is about to be generated
InitScript ==
    /\ RunIdle
    /\ screen = "deploy_screen"
    /\ \E models \in ModelLists, hf_token \in HfTokens :
            config = [WizardConfig EXCEPT !.models = models, !.hf_token = hf_token]
    /\ notice = ""
    /\ fpc = "done"
    /\ listing = NoListing
    /\ options = <<"gpuA">>
    /\ runpod_api_key = "rpa_A"
    /\ PureIdle
    /\ KeysIdle

\* script = self.generate_setup_script(config)
Generate ==
    /\ script = <<>>
    /\ script' = GenerateSetupScript(config)
    /\ UNCHANGED <<runVars, wizVars, runpod_api_key, model, path, keyVars>>

NextScript == Generate

SpecScript == InitScript /\ [][NextScript]_vars

\* ------------------------------------------------------- concurrent runs
Runs == {"A", "B"}

\* the API key of each run's configuration
RunKey(r) == IF r = "A" THEN "rpa_A" ELSE "rpa_B"

\* two runs in one process, no RunPodService constructed yet
InitKeys ==
    /\ RunIdle
    /\ screen = "deploy_screen"
    /\ config = WizardConfig
    /\ notice = ""
    /\ fpc = "done"
    /\ listing = NoListing
    /\ options = <<"gpuA">>
    /\ runpod_api_key = None
    /\ PureIdle
    /\ svc = [r \in Runs |-> [pc |-> "new", api_key |-> None]]
    /\ authlog = <<>>

\* a provider call of run r: the runpod module authenticates it with the
\* module attribute runpod.api_key as it is at the time of the call
ProviderCall(r, op) ==
    authlog' = Append(authlog, [run |-> r, op |-> op, key |-> runpod_api_key])

\* RunPodService.__init__: runpod.api_key = api_key; self.api_key = api_key
SvcInit(r) ==
    /\ svc[r].pc = "new"
    /\ runpod_api_key' = RunKey(r)
    /\ svc' = [svc EXCEPT ![r] = [pc |-> "list", api_key |-> RunKey(r)]]
    /\ UNCHANGED <<authlog, runVars, wizVars, pureVars>>

\* service.list_gpus()
SvcListGpus(r) ==
    /\ svc[r].pc = "list"
    /\ ProviderCall(r, "get_gpus")
    /\ svc' = [svc EXCEPT ![r].pc = "create"]
    /\ UNCHANGED <<runpod_api_key, runVars, wizVars, pureVars>>

\* service.create_pod(config)
SvcCreatePod(r) ==
    /\ svc[r].pc = "create"
    /\ ProviderCall(r, "create_pod")
    /\ \E ok \in BOOLEAN :
        svc' = [svc EXCEPT ![r].pc = IF ok THEN "poll" ELSE "done"]
    /\ UNCHANGED <<runpod_api_key, runVars, wizVars, pureVars>>

\* one get_pod of service.wait_for_pod(pod_id)
SvcGetPod(r) ==
    /\ svc[r].pc = "poll"
    /\ Cardinality({ k \in 1..Len(authlog) :
                      authlog[k].run = r /\ authlog[k].op = "get_pod" }) < MaxPolls
    /\ ProviderCall(r, "get_pod")
    /\ \E p \in {"CREATED", "RUNNING", "EXITED"} :
        svc' = [svc EXCEPT ![r].pc = IF p = "CREATED" THEN "poll" ELSE "done"]
    /\ UNCHANGED <<runpod_api_key, runVars, wizVars, pureVars>>

NextKeys ==
    \E r \in Runs :
        \/ SvcInit(r)
        \/ SvcListGpus(r)
        \/ SvcCreatePod(r)
        \/ SvcGetPod(r)

SpecKeys == InitKeys /\ [][NextKeys]_vars

\* ------------------------------------------------------------------ wizard
ApiKeyInputs == {"", "rpa_A"}

HfTokenInputs == {"", "hf_tok"}

SizeInputs == {"40", "abc"}

\* int(text): <<n>> or <<>> for a ValueError
ParseInt(text) == IF text = "40" THEN <<40>> ELSE <<>>

\* app.push_screen(name): ProvisionerApp declares no SCREENS registry, so the
\* name resolves only if the screen was installed elsewhere; otherwise the
\* handler fails and the application stops
PushScreen(name) ==
    \E installed \in BOOLEAN :
        screen' = IF installed THEN name ELSE "crashed"

\* ProvisionerApp.on_mount: the configuration screen, nothing entered yet
InitWizard ==
    /\ RunIdle
    /\ screen = "config_screen"
    /\ config = InitialConfig
    /\ notice = ""
    /\ fpc = "idle"
    /\ listing = NoListing
    /\ options = <<>>
    /\ runpod_api_key = None
    /\ PureIdle
    /\ KeysIdle

\* variant: the required-key validation is missing
KeyMissing_Never(api_key) == FALSE

\* if not api_key
KeyMissing(api_key) == api_key = ""

\* ConfigScreen.submit with the values of the two inputs
Submit ==
    /\ screen = "config_screen"
    /\ \E api_key \in ApiKeyInputs, hf_token \in HfTokenInputs :
        IF KeyMissing(api_key)
        THEN /\ notice' = "API Key is required"
             /\ UNCHANGED <<screen, config, fpc>>
        ELSE /\ config' = [config EXCEPT
                            !.api_key = api_key,
                            !.hf_token = IF hf_token # "" THEN hf_token ELSE @]
             /\ PushScreen("provision_screen")
             /\ fpc' = IF screen' = "provision_screen" THEN "init" ELSE fpc
             /\ UNCHANGED notice
    /\ UNCHANGED <<listing, options, runVars, runpod_api_key, pureVars, keyVars>>

\* fetch_gpus: service = RunPodService(self.app.config_data.api_key)
FetchInit ==
    /\ fpc = "init"
    /\ runpod_api_key' = config.api_key
    /\ fpc' = "list"
    /\ UNCHANGED <<screen, config, notice, listing, options>>
    /\ UNCHANGED <<runVars, pureVars, keyVars>>

\* fetch_gpus: gpus = service.list_gpus()
FetchList ==
    /\ fpc = "list"
    /\ calls' = Append(calls, "runpod.get_gpus")
    /\ \E resp \in GpuResponses :
        /\ listing' = [ resp |-> resp,
                        raised |-> ListGpus(resp).raised,
                        value |-> ListGpus(resp).value,
                        logged |-> ListGpus(resp).logged ]
        /\ IF ListGpus(resp).raised
           THEN /\ notice' = "Error: ProviderError"
                /\ fpc' = "done"
           ELSE /\ fpc' = "sort"
                /\ UNCHANGED notice
    /\ UNCHANGED <<screen, config, options>>
    /\ UNCHANGED <<pc, log, pod, i, session, exit_status, yields, gen, caught>>
    /\ UNCHANGED <<runpod_api_key, pureVars, keyVars>>

\* fetch_gpus: sort by price, build the options, notify or fill the select;
\* the worker's locals are gone when it returns
FetchFinish ==
    /\ fpc = "sort"
    /\ IF SortByPrice(listing.value) = <<>>
       THEN /\ notice' = "No GPUs found or API error."
            /\ UNCHANGED options
       ELSE /\ options' = [k \in 1..Len(listing.value) |->
                              SortByPrice(listing.value)[k].id]
            /\ UNCHANGED notice
    /\ listing' = NoListing
    /\ fpc' = "done"
    /\ UNCHANGED <<screen, config>>
    /\ UNCHANGED <<runVars, runpod_api_key, pureVars, keyVars>>

\* ProvisionScreen.on_button_pressed for next_btn
ProvisionNext ==
    /\ screen = "provision_screen"
    /\ \E gpu_id \in {None} \cup { options[k] : k \in 1..Len(options) },
          volume \in SizeInputs, container \in SizeInputs :
        IF gpu_id = None
        THEN /\ notice' = "Please select a GPU"
             /\ UNCHANGED <<screen, config>>
        ELSE IF ParseInt(volume) = <<>>
        THEN /\ config' = [config EXCEPT !.gpu_type_id = gpu_id]
             /\ notice' = "Sizes must be integers"
             /\ UNCHANGED screen
        ELSE IF ParseInt(container) = <<>>
        THEN /\ config' = [config EXCEPT
                            !.gpu_type_id = gpu_id,
                            !.volume_size_gb = ParseInt(volume)[1]]
             /\ notice' = "Sizes must be integers"
             /\ UNCHANGED screen
        ELSE /\ config' = [config EXCEPT
                            !.gpu_type_id = gpu_id,
                            !.volume_size_gb = ParseInt(volume)[1],
                            !.container_disk_size_gb = ParseInt(container)[1]]
             /\ PushScreen("model_screen")
             /\ UNCHANGED notice
    /\ UNCHANGED <<fpc, listing, options>>
    /\ UNCHANGED <<runVars, runpod_api_key, pureVars, keyVars>>

\* ModelScreen.on_button_pressed for deploy_btn
Deploy ==
    /\ screen = "model_screen"
    /\ PushScreen("deploy_screen")
    /\ UNCHANGED <<config, notice, fpc, listing, options>>
    /\ UNCHANGED <<runVars, runpod_api_key, pureVars, keyVars>>

\* the wizard followed by the provider phase of the deployment it starts
NextWizard ==
    \/ Submit
    \/ FetchInit
    \/ FetchList
    \/ FetchFinish
    \/ ProvisionNext
    \/ Deploy
    \/ Start
    \/ CreatePod
    \/ Poll

SpecWizard == InitWizard /\ [][NextWizard]_vars

TypeOK ==
    /\ pc \in {"start", "create", "poll", "resolve", "connect", "write",
               "run", "stream", "complete", "done"}
    /\ calls \in Seq(CallNames)
    /\ caught \in {NoExc, CreateError, ExitedError, AttributeError,
                  ProviderError, SSHException}
    /\ pod \in Pods \cup {Unbound}
    /\ i \in 0..retries
    /\ session \in {"none", "open", "closed"}
    /\ gen \in {"none", "active", "returned", "raised"}
    /\ Len(exit_status) <= 1

\* ------------------------------------------------------------ observations
Polls == Count(calls, "runpod.get_pod")

Sleeps == Count(calls, "time.sleep(2)")

Attempts == Count(calls, "client.connect")

Waitings == Count(yields, WaitingLine)

ConnectFailures == Count(yields, ConnectFailLine)

Yielded(text) == \E k \in 1..Len(yields) : yields[k] = text

Logged(line) == \E k \in 1..Len(log) : log[k] = line

ErrorLines == Cardinality({ k \in 1..Len(log) : log[k].prefix = "ERROR: " })

NoShellCall ==
    /\ ~Called("time.sleep(5)")
    /\ ~Called("client.connect")
    /\ ~Called("exec_command(write)")
    /\ ~Called("exec_command(run)")

\* "Access ComfyUI at: http://<ip>:<publicPort>" for a port mapping m
EndpointText(m) ==
    "Access ComfyUI at: http://" \o m.ip \o ":" \o ToString(m.publicPort)

EndpointLines ==
    Cardinality({ k \in 1..Len(log) :
                    \E m \in PortMaps : log[k] = Local(EndpointText(m)) })

\* the mappings of the pod for private port 8188, by position
HttpMappings(p) ==
    { k \in 1..Len(p.runtime.ports) : p.runtime.ports[k].privatePort = 8188 }

\* the pod has desiredStatus RUNNING and a non-empty port-mapping set
Ready(p) ==
    /\ p.desiredStatus = "RUNNING"
    /\ p.runtime.kind = "dict"
    /\ p.runtime.ports # <<>>

NoSSHMapping(p) ==
    \A k \in 1..Len(p.runtime.ports) : p.runtime.ports[k].privatePort # 22

\* ------------------------------------------------------------------ claims

\* C1: once a poll returns a pod whose desiredStatus is EXITED, wait_for_pod
\* raises at once: the get_pod that returned it is the last call ever issued
\* (no further poll, no sleep), whatever responses came before.
C1_ExitedRaisesAtOnce ==
    pod.desiredStatus = "EXITED" =>
        /\ EndsWith(calls, "runpod.get_pod")
        /\ caught = ExitedError
        /\ EndsWith(log, ErrorLine(ExitedError))
        /\ pc = "done"
        /\ gen = "none"

C1_Witness ==
    /\ pod.desiredStatus = "EXITED"
    /\ Polls = 3
    /\ Sleeps = 2

\* C2 (as claimed): wait_for_pod returns only a RUNNING pod with ports, and
\* after every response that is neither that nor EXITED it neither returns
\* nor raises but sleeps and polls again.
C2_PollsAgainUnlessReadyOrExited ==
    /\ gen # "none" => Ready(pod)
    /\ ( /\ pod # Unbound
         /\ caught # ProviderError
         /\ ~Ready(pod)
         /\ pod.desiredStatus # "EXITED" )
       => ( /\ pc = "poll"
            /\ caught = NoExc
            /\ EndsWith(calls, "time.sleep(2)") )

\* C3: at most 10 connect attempts; a first success at attempt k comes after
\* exactly k-1 waiting lines and no failure line; 10 failures give exactly 9
\* waiting lines followed by exactly one failure line.
C3_ConnectLoopLines ==
    /\ Attempts <= 10
    /\ pc = "connect" => (Waitings = Attempts /\ ConnectFailures = 0)
    /\ session # "none" =>
        /\ Attempts \in 1..10
        /\ Waitings = Attempts - 1
        /\ ConnectFailures = 0
    /\ (Attempts = 10 /\ session = "none") =>
        yields = [k \in 1..10 |-> IF k < 10 THEN WaitingLine ELSE ConnectFailLine]

C3_Witness ==
    /\ Attempts = 10
    /\ session = "none"
    /\ Waitings = 9
    /\ pc = "done"

\* C4: when the pod handed to execute_setup has no mapping for private port
\* 22, the generator yields exactly the one failure line and returns, and no
\* settle delay, connect, script write or script execution happens.
C4_NoSSHPortOneLine ==
    (gen # "none" /\ pc # "resolve" /\ NoSSHMapping(pod)) =>
        /\ yields = <<NoSSHLine>>
        /\ gen = "returned"
        /\ NoShellCall

C4_Witness ==
    /\ gen = "returned"
    /\ NoSSHMapping(pod)
    /\ yields = <<NoSSHLine>>
    /\ pc = "done"

\* C5: when all connection attempts fail, the sequence ends with the failure
\* line and neither the script write nor the script execution is issued.
C5_NoExecAfterConnectFailure ==
    (Attempts = retries /\ session = "none") =>
        /\ EndsWith(yields, ConnectFailLine)
        /\ gen = "returned"
        /\ pc \in {"complete", "done"}
        /\ ~Called("exec_command(write)")
        /\ ~Called("exec_command(run)")

C5_Witness ==
    /\ Attempts = retries
    /\ session = "none"
    /\ EndsWith(yields, ConnectFailLine)
    /\ pc = "complete"

\* C6: the script is executed only after a write with exit status zero; a
\* non-zero write status gives one failure line, ends the sequence and the
\* execute command is never issued.
C6_ExecOnlyAfterCleanWrite ==
    /\ Called("exec_command(run)") => exit_status = <<0>>
    /\ (exit_status # <<>> /\ exit_status # <<0>>) =>
        /\ EndsWith(yields, WriteFailLine)
        /\ Count(yields, WriteFailLine) = 1
        /\ gen = "returned"
        /\ ~Called("exec_command(run)")

C6_Witness ==
    /\ exit_status = <<1>>
    /\ EndsWith(yields, WriteFailLine)
    /\ pc = "done"

\* C7 (as claimed): no exception raised inside execute_setup leaves the
\* generator; the consumer never catches one coming out of the sequence.
C7_NoExceptionLeavesSequence ==
    /\ gen # "raised"
    /\ caught # SSHException

\* C8: whenever create_pod, wait_for_pod or execute_setup raises,
\* perform_deployment has logged exactly one ERROR line, that line is the
\* last one, and the worker has returned normally.
C8_OneErrorLineThenReturn ==
    /\ pc # "crashed"
    /\ caught = NoExc => ErrorLines = 0
    /\ caught # NoExc =>
        /\ pc = "done"
        /\ ErrorLines = 1
        /\ EndsWith(log, ErrorLine(caught))

C8_Witness ==
    /\ caught = SSHException
    /\ gen = "raised"
    /\ Called("readline")
    /\ pc = "done"

\* C9: if create_pod fails, or wait_for_pod fails or the instance is seen
\* EXITED, the run performs no settle delay, connection attempt, script write
\* or script execution.
C9_NoShellAfterProviderFailure ==
    ( \/ caught \in {CreateError, ExitedError, AttributeError, ProviderError}
      \/ pod.desiredStatus = "EXITED" )
    => (NoShellCall /\ gen = "none")

C9_Witness ==
    /\ caught = ExitedError
    /\ Polls = 3
    /\ pc = "done"

\* C10 (as claimed): after the remote phase ended in "no SSH port", "connect
\* retries exhausted" or "script write failed", neither the completion
\* marker nor an endpoint line is logged.
C10_NoCompletionAfterRemoteFailure ==
    (Yielded(NoSSHLine) \/ Yielded(ConnectFailLine) \/ Yielded(WriteFailLine))
    => /\ ~Logged(Local(CompleteLine))
       /\ EndpointLines = 0
       /\ ~Logged(Local(NoUrlLine))

\* C11: a run that reaches completion logs exactly one of the two closing
\* lines: the endpoint built from ip and public port of the (first) mapping
\* for private port 8188 when the ready pod has one, else the "could not
\* determine URL" line; never both, never neither.
C11_ExactlyOneEndpointLine ==
    (pc = "done" /\ Logged(Local(CompleteLine))) =>
        IF HttpMappings(pod) # {}
        THEN /\ \E k \in HttpMappings(pod) :
                    /\ \A j \in HttpMappings(pod) : k <= j
                    /\ EndsWith(log, Local(EndpointText(pod.runtime.ports[k])))
             /\ EndpointLines = 1
             /\ ~Logged(Local(NoUrlLine))
        ELSE /\ EndsWith(log, Local(NoUrlLine))
             /\ Count(log, Local(NoUrlLine)) = 1
             /\ EndpointLines = 0

C11_Witness ==
    /\ pc = "done"
    /\ session = "closed"
    /\ HttpMappings(pod) = {2}
    /\ EndpointLines = 1
    /\ EndsWith(log, Local(EndpointText(pod.runtime.ports[2])))

ProviderCalled ==
    \/ Called("runpod.get_gpus")
    \/ Called("runpod.create_pod")
    \/ Called("runpod.get_pod")

\* C12: while the API key is empty the application is still on the
\* configuration screen with the configuration untouched and no worker
\* started; every list_gpus, create_pod or get_pod call is made with a
\* non-empty key. A submit with an empty key only leaves a notification.
C12_NoProviderCallWithoutKey ==
    /\ config.api_key = "" =>
        /\ screen = "config_screen"
        /\ config = InitialConfig
        /\ fpc = "idle"
        /\ pc = "start"
        /\ ~ProviderCalled
    /\ ProviderCalled =>
        /\ config.api_key # ""
        /\ runpod_api_key = config.api_key

C12_Witness ==
    /\ notice = "API Key is required"
    /\ config = InitialConfig
    /\ screen = "config_screen"

\* C16: list_gpus never raises; when the provider call fails it returns the
\* empty list and logs the error, otherwise it returns exactly the list the
\* provider returned.
C16_ListGpusNeverRaises ==
    /\ ~listing.raised
    /\ notice # "Error: ProviderError"
    /\ listing.resp.ok =>
        (listing.value = listing.resp.gpus /\ ~listing.logged)
    /\ ~listing.resp.ok =>
        (listing.value = <<>> /\ listing.logged)

C16_Witness ==
    /\ fpc = "sort"
    /\ ~listing.resp.ok
    /\ listing.value = <<>>
    /\ listing.logged

\* the URL starts with "http://" or "https://"
HasHttpScheme(url) ==
    \/ Len(url) >= 2 /\ url[1] = "http" /\ url[2] = "://"
    \/ Len(url) >= 3 /\ url[1] = "http" /\ url[2] = "s" /\ url[3] = "://"

\* the host of the URL, the part right after "://", is the Hugging Face domain
HostIsHuggingFace(url) ==
    \E k \in 1..(Len(url) - 1) :
        /\ url[k] = "://"
        /\ \A j \in 1..(k - 1) : url[j] # "://"
        /\ url[k + 1] = "huggingface.co"

AuthHeader(token) == "--header='Authorization: Bearer " \o token \o "'"

PossibleArgs == {""} \cup { AuthHeader(t) : t \in HfTokens \ {None} }

DownloadLinesOf(m) == { WgetLine(m, a) : a \in PossibleArgs }

IsDownloadLine(line) == \E m \in ScriptModels : line \in DownloadLinesOf(m)

ValidModel(m) == HasHttpScheme(m.url)

\* C13 (as claimed): a model whose URL does not start with http:// or
\* https:// has no download line in the generated script.
C13_DownloadOnlyForHttpScheme ==
    script # <<>> =>
        \A k \in 1..Len(config.models) :
            ~HasHttpScheme(config.models[k].url) =>
                \A j \in 1..Len(script) :
                    script[j] \notin DownloadLinesOf(config.models[k])

\* C14 (as claimed): the download line of a model carries the authorization
\* header with hf_token exactly when the host of its URL is the Hugging Face
\* domain and hf_token is non-empty.
C14_TokenOnlyForHuggingFaceHost ==
    script # <<>> =>
        \A k \in 1..Len(config.models), j \in 1..Len(script) :
            script[j] \in DownloadLinesOf(config.models[k]) =>
                script[j] =
                    WgetLine(config.models[k],
                             IF /\ HostIsHuggingFace(config.models[k].url)
                                /\ Truthy(config.hf_token)
                             THEN AuthHeader(config.hf_token)
                             ELSE "")

\* C15 (as claimed): install_path is subfolder whenever subfolder is not
\* None, and the per-type default directory when it is None.
C15_InstallPathIsSubfolderUnlessNone ==
    path # <<>> =>
        /\ model[1].subfolder # None => path[1] = model[1].subfolder
        /\ model[1].subfolder = None =>
            /\ model[1].type = "checkpoint" => path[1] = "checkpoints"
            /\ model[1].type = "lora" => path[1] = "loras"
            /\ model[1].type = "vae" => path[1] = "vae"
            /\ model[1].type = "embedding" => path[1] = "embeddings"
            /\ model[1].type = "controlnet" => path[1] = "controlnet"

\* C20 (as claimed): the download lines of the script are, in the order of
\* config.models, one line per model with an HTTP(S) URL targeting
\* models/<install_path>/<name> (one per occurrence of a repeated name);
\* without models the script is the clone/install lines and the final echo.
C20_OneDownloadPerValidModel ==
    script # <<>> =>
        /\ Len(SelectSeq(script, IsDownloadLine))
              = Len(SelectSeq(config.models, ValidModel))
        /\ \A k \in 1..Len(SelectSeq(config.models, ValidModel)) :
              k <= Len(SelectSeq(script, IsDownloadLine)) =>
                  SelectSeq(script, IsDownloadLine)[k]
                      \in DownloadLinesOf(SelectSeq(config.models, ValidModel)[k])
        /\ config.models = <<>> => script = ScriptHead \o ScriptTail

\* C17 (as claimed): whenever the generator has finished, by returning or
\* by raising, after a session was opened, that session has been closed.
C17_SessionClosedWhenExhausted ==
    (gen \in {"returned", "raised"} /\ session # "none") => session = "closed"

\* C18 (as claimed): every provider call of a run is authenticated with the
\* API key of that run.
C18_CallsUseOwnKey ==
    \A k \in 1..Len(authlog) : authlog[k].key = RunKey(authlog[k].run)

\* the phase a call belongs to; time.sleep(2) occurs in two phases
Phase(op) ==
    CASE op = "runpod.create_pod" -> 1
      [] op = "runpod.get_pod" -> 2
      [] op \in {"time.sleep(5)", "client.connect"} -> 3
      [] op \in {"exec_command(write)", "recv_exit_status"} -> 4
      [] op \in {"exec_command(run)", "readline", "client.close"} -> 5
      [] OTHER -> 0

IsRemoteLine(line) == line.prefix = "[REMOTE] "

\* time.sleep(2) occurs in the poll loop and in the connect loop
IsPhaseCall(op) == op # "time.sleep(2)"

\* C19: the calls of a run are ordered by phase (create, polls, connects,
\* script write, script execution), shell calls come only after wait_for_pod
\* returned, the completion marker is logged only when everything else is
\* over, and the lines with the remote prefix are exactly the lines yielded
\* by execute_setup, all after the connecting marker and before the
\* completion marker.
C19_PhasesInOrder ==
    LET phased == SelectSeq(calls, IsPhaseCall)
        remote == { k \in 1..Len(log) : IsRemoteLine(log[k]) }
        connecting == { k \in 1..Len(log) : log[k] = Local("Connecting via SSH...") }
        complete == { k \in 1..Len(log) : log[k] = Local(CompleteLine) }
    IN  /\ \A k \in 1..(Len(phased) - 1) : Phase(phased[k]) <= Phase(phased[k + 1])
        /\ Count(calls, "runpod.create_pod") <= 1
        /\ Called("runpod.get_pod") => EndsWith(SubSeq(calls, 1, 1), "runpod.create_pod")
        /\ ~NoShellCall =>
              /\ Logged(Local("Pod is RUNNING!"))
              /\ connecting # {}
        /\ \A k \in remote :
              /\ \E c \in connecting : c < k
              /\ \A d \in complete : k < d
        /\ SelectSeq(log, IsRemoteLine) = [k \in 1..Len(yields) |-> Remote(yields[k])]
        /\ complete # {} => (pc = "done" /\ gen = "returned")

C19_Witness ==
    /\ pc = "done"
    /\ session = "closed"
    /\ Polls = 2
    /\ Attempts = 2
    /\ Len(yields) = 3
    /\ Logged(Local(CompleteLine))

\* the instance has reached EXITED or RUNNING with port mappings
InstanceSettled(p) == p.desiredStatus = "EXITED" \/ Ready(p)

\* wait_for_pod is still polling: every poll so far found an instance that
\* has not settled
StillPolling ==
    /\ pc = "poll"
    /\ Polls = MaxPolls
    /\ ~InstanceSettled(pod)

\* the run is over, after exactly one ERROR line or after the completion
\* marker
RunEnded ==
    /\ pc = "done"
    /\ \/ ErrorLines = 1 /\ ~Logged(Local(CompleteLine))
       \/ ErrorLines = 0 /\ Logged(Local(CompleteLine))

\* C21: every run ends, after one ERROR line or after the completion marker,
\* unless the instance never settles and wait_for_pod keeps polling; the
\* output stream ends within MaxLines lines.
C21_RunTerminates == <>(RunEnded \/ StillPolling)

C21_Witness ==
    /\ RunEnded
    /\ Polls = MaxPolls
    /\ Attempts = retries
    /\ Count(calls, "readline") = MaxLines + 1
    /\ session = "closed"

====
